---- MODULE Spec2Model ----
(***************************************************************************)
(* fastapi-file-router: load_routes(app, directory, auto_tags, verbose).   *)
(*                                                                         *)
(* A Python str is modelled as a sequence of one-character strings, so     *)
(* that replace, split, join, "in", startswith, the regular expression     *)
(* search and the comparison used by sorted() are computed character by    *)
(* character as the interpreter computes them.                             *)
(***************************************************************************)
EXTENDS Naturals, Sequences, FiniteSets, TLC

(***************************************************************************)
(* Bounds of the model.                                                    *)
(***************************************************************************)
\* Largest number of files in the directory tree handed to load_routes.
MaxFiles == 2
\* Largest number of load_routes calls made on the same app and tree.
MaxRuns == 2

(***************************************************************************)
(* Python str primitives.                                                  *)
(***************************************************************************)
Lower == <<"a", "b", "c", "d", "e", "f", "g", "h", "i", "j", "k", "l", "m",
           "n", "o", "p", "q", "r", "s", "t", "u", "v", "w", "x", "y", "z">>

\* ord(c): the code point, which is what str comparison compares.
Ord(c) ==
    CASE c = "." -> 46
      [] c = "/" -> 47
      [] c = "[" -> 91
      [] c = "]" -> 93
      [] c = "_" -> 95
      [] c = "{" -> 123
      [] c = "}" -> 125
      [] OTHER -> 96 + (CHOOSE i \in 1..Len(Lower) : Lower[i] = c)

\* s[i:] with a 1-based i.
Drop(s, i) == SubSeq(s, i, Len(s))

\* s.startswith(p)
StartsWith(s, p) == Len(p) <= Len(s) /\ SubSeq(s, 1, Len(p)) = p

\* p in s
Contains(s, p) == \E i \in 1..(Len(s) + 1) : StartsWith(Drop(s, i), p)

\* a < b on str: lexicographic by code point, a proper prefix sorting first.
RECURSIVE StrLess(_, _)
StrLess(a, b) ==
    IF b = <<>> THEN FALSE
    ELSE IF a = <<>> THEN TRUE
    ELSE IF Head(a) # Head(b) THEN Ord(Head(a)) < Ord(Head(b))
    ELSE StrLess(Tail(a), Tail(b))

\* s.replace(old, new): every non-overlapping occurrence, scanning from the
\* left; an empty old matches before every character and at the end.
RECURSIVE Replace(_, _, _)
Replace(s, old, new) ==
    IF old = <<>>
    THEN IF s = <<>> THEN new ELSE new \o <<Head(s)>> \o Replace(Tail(s), old, new)
    ELSE IF s = <<>> THEN <<>>
    ELSE IF StartsWith(s, old) THEN new \o Replace(Drop(s, Len(old) + 1), old, new)
    ELSE <<Head(s)>> \o Replace(Tail(s), old, new)

\* s.split(c) for a one-character separator c: a sequence of str.
RECURSIVE Split(_, _)
Split(s, c) ==
    IF \A i \in 1..Len(s) : s[i] # c THEN <<s>>
    ELSE LET k == CHOOSE i \in 1..Len(s) :
                      s[i] = c /\ \A j \in 1..(i - 1) : s[j] # c
         IN  <<SubSeq(s, 1, k - 1)>> \o Split(Drop(s, k + 1), c)

\* c.join(parts)
RECURSIVE Join(_, _)
Join(parts, c) ==
    IF parts = <<>> THEN <<>>
    ELSE IF Len(parts) = 1 THEN parts[1]
    ELSE parts[1] \o <<c>> \o Join(Tail(parts), c)

\* The index of the last "." of a file name, 0 when there is none.
LastDot(name) ==
    IF \A i \in 1..Len(name) : name[i] # "." THEN 0
    ELSE CHOOSE i \in 1..Len(name) :
             name[i] = "." /\ \A j \in (i + 1)..Len(name) : name[j] # "."

\* PurePath.suffix: from the last dot, unless that dot starts or ends the name.
Suffix(name) ==
    LET i == LastDot(name)
    IN  IF 1 < i /\ i < Len(name) THEN Drop(name, i) ELSE <<>>

\* PurePath.stem: the name without its suffix.
Stem(name) == SubSeq(name, 1, Len(name) - Len(Suffix(name)))

\* PurePath.name of a path given as a str: its last component.
BaseName(path) == LET parts == Split(path, "/") IN parts[Len(parts)]

\* re.search(r"\[(.*?)\]", stem) finds a match: some "[" has a "]" after it.
HasParam(stem) ==
    \E i \in 1..Len(stem) : stem[i] = "[" /\ \E j \in (i + 1)..Len(stem) : stem[j] = "]"

\* match.group(1): the text between the leftmost "[" and the first "]" after it.
ParamName(stem) ==
    LET i == CHOOSE k \in 1..Len(stem) :
                 stem[k] = "[" /\ \A m \in 1..(k - 1) : stem[m] # "["
        j == CHOOSE k \in (i + 1)..Len(stem) :
                 stem[k] = "]" /\ \A m \in (i + 1)..(k - 1) : stem[m] # "]"
    IN  SubSeq(stem, i + 1, j - 1)

square_to_curly_brackets(path) ==
    Replace(Replace(path, <<"[">>, <<"{">>), <<"]">>, <<"}">>)

(***************************************************************************)
(* Names used by the trees, roots and handlers of the model.               *)
(***************************************************************************)
API == <<"a", "p", "i">>
SRC_API == <<"s", "r", "c", "/", "a", "p", "i">>
SRV_API == <<"/", "s", "r", "v", "/", "a", "p", "i">>
USERS == <<"u", "s", "e", "r", "s">>
ID_DIR == <<"[", "i", "d", "]">>
PYCACHE == <<"_", "_", "p", "y", "c", "a", "c", "h", "e", "_", "_">>
APIKEYS == <<"a", "p", "i", "k", "e", "y", "s">>
ROUTE == <<"r", "o", "u", "t", "e">>
DOT_PY == <<".", "p", "y">>
DUNDER == <<"_", "_">>
ROUTE_PY == <<"r", "o", "u", "t", "e", ".", "p", "y">>
ID_PY == <<"[", "i", "d", "]", ".", "p", "y">>
XID_PY == <<"x", "[", "i", "d", "]", ".", "p", "y">>
PROFILE_PY == <<"p", "r", "o", "f", "i", "l", "e", ".", "p", "y">>
USERS_PY == <<"u", "s", "e", "r", "s", ".", "p", "y">>
ROUTER_PY == <<"r", "o", "u", "t", "e", "r", ".", "p", "y">>
INIT_PY == <<"_", "_", "i", "n", "i", "t", "_", "_", ".", "p", "y">>
NOTES_TXT == <<"n", "o", "t", "e", "s", ".", "t", "x", "t">>
APIS_PY == <<"a", "p", "i", "s", ".", "p", "y">>
EXISTING_TAG == <<"e", "x", "i", "s", "t", "i", "n", "g", "_", "t", "a", "g">>

\* The directory argument: a bare relative name, a nested relative path and
\* an absolute path, all naming a directory called "api".
Directories == {API, SRC_API, SRV_API}

\* A file of the tree: the directory segments below the tree root, and the
\* file's name.
File(dir, name) == [dir |-> dir, name |-> name]

\* The files a tree of the model is made of.
Candidates ==
    { File(<<USERS>>, ROUTE_PY),
      File(<<USERS>>, ID_PY),
      File(<<USERS>>, XID_PY),
      File(<<USERS, ID_DIR>>, ROUTE_PY),
      File(<<USERS, ID_DIR>>, PROFILE_PY),
      File(<<>>, USERS_PY),
      File(<<PYCACHE>>, ROUTE_PY),
      File(<<USERS>>, ROUTER_PY),
      File(<<USERS>>, INIT_PY),
      File(<<USERS>>, NOTES_TXT),
      File(<<APIKEYS>>, APIS_PY) }

Trees == {t \in SUBSET Candidates : Cardinality(t) \in 1..MaxFiles}

\* The APIRouter objects the route modules export, and the tags each was
\* constructed with: APIRouter(tags=[]) and APIRouter(tags=["existing_tag"]).
Routers == {"r1", "r2"}
InitialTags == [r \in Routers |-> IF r = "r1" THEN <<>> ELSE <<EXISTING_TAG>>]

\* What importing a route module and reading its "router" attribute gives:
\* the import raises, the module has no router, or it exports a router.
LoadResults == {"raise", "None"} \cup Routers

(***************************************************************************)
(* The state: the arguments and the file system, the interpreter's objects *)
(* that outlive a call, and the position of the running call.              *)
(***************************************************************************)
VARIABLES
    directory,   \* the directory argument, as a str
    tree,        \* the files below directory
    auto_tags,   \* the auto_tags argument
    loaded,      \* per file: what loading its module gives, once it was loaded
    tags,        \* router.tags of every APIRouter object
    imported,    \* the module names handed to importlib.import_module so far
    app,         \* the include_router calls made on app, oldest first
    run,         \* the number of load_routes calls started
    pc,          \* "idle", "running", "done" (returned) or "aborted" (raised)
    order,       \* the files in the order walk() yields them in this call
    pos,         \* the index in order of the file the loops are at
    routers,     \* the call's local list routers
    reg,         \* the index in sorted(routers) the registration loop is at
    logged,      \* the messages the call passed to log()
    tags0,       \* history: tags as it was when the call started
    outcomes     \* history: how each finished call ended

vars == <<directory, tree, auto_tags, loaded, tags, imported, app, run, pc,
          order, pos, routers, reg, logged, tags0, outcomes>>

(***************************************************************************)
(* walk(): os.walk, top-down.  A directory's own files come before those of *)
(* its subdirectories, a subtree is walked without interruption, and the    *)
(* order among the files of one directory and among sibling directories is  *)
(* the file system's.                                                       *)
(***************************************************************************)
IsPrefix(p, q) == Len(p) <= Len(q) /\ SubSeq(q, 1, Len(p)) = p

WalkOrders(t) ==
    LET n == Cardinality(t)
    IN  { o \in [1..n -> t] :
            /\ \A i, j \in 1..n : i # j => o[i] # o[j]
            /\ \A i, j \in 1..n :
                 i < j => ~(IsPrefix(o[j].dir, o[i].dir) /\ o[j].dir # o[i].dir)
            /\ \A i, j, k \in 1..n :
                 i < j /\ j < k =>
                   \A m \in 0..Len(o[i].dir) :
                     IsPrefix(SubSeq(o[i].dir, 1, m), o[k].dir)
                       => IsPrefix(SubSeq(o[i].dir, 1, m), o[j].dir) }

\* The root str os.walk yields for the directory of file f.
RootOf(dirarg, f) == Join(<<dirarg>> \o f.dir, "/")

\* (root / file).as_posix()
PosixPath(dirarg, f) == RootOf(dirarg, f) \o <<"/">> \o f.name

\* The argument of import_module: (root / file).as_posix().replace("/", ".")[:-3]
ModuleName(dirarg, f) ==
    LET dotted == Replace(PosixPath(dirarg, f), <<"/">>, <<".">>)
    IN  SubSeq(dotted, 1, Len(dotted) - 3)

(***************************************************************************)
(* The skip rules.                                                         *)
(***************************************************************************)
\* A variant that skips no directory.
NeverSkipsDirectory(dirarg, f) == FALSE

\* root.name.startswith("__")
SkipsDirectory(dirarg, f) == StartsWith(BaseName(RootOf(dirarg, f)), DUNDER)

\* file_path.name.startswith("__") or file_path.suffix != ".py"
SkipsFile(name) == StartsWith(name, DUNDER) \/ Suffix(name) # DOT_PY

\* A variant with the comparison inverted: it skips route.py itself.
MisspelledInverted(stem) == Contains(stem, ROUTE) /\ stem = ROUTE

\* "route" in file_path.stem and file_path.stem != "route"
IsMisspelled(stem) == Contains(stem, ROUTE) /\ stem # ROUTE

\* The file reaches import_module.
Qualifies(dirarg, f) ==
    /\ ~SkipsDirectory(dirarg, f)
    /\ ~SkipsFile(f.name)
    /\ ~IsMisspelled(Stem(f.name))

(***************************************************************************)
(* The path template, the tag and the prefix.                              *)
(***************************************************************************)
\* square_to_curly_brackets("/".join(<path>.split("/")[1:-1]))
\*     .replace(directory.name, "")
DirectoryPart(dirarg, f) ==
    LET parts == Split(PosixPath(dirarg, f), "/")
        inner == SubSeq(parts, 2, Len(parts) - 1)
    IN  Replace(square_to_curly_brackets(Join(inner, "/")), BaseName(dirarg), <<>>)

\* What the file's stem adds to route_path.
StemPart(stem) ==
    IF HasParam(stem) THEN <<"/", "{">> \o ParamName(stem) \o <<"}">>
    ELSE IF stem # ROUTE THEN <<"/">> \o stem
    ELSE <<>>

RoutePath(dirarg, f) == DirectoryPart(dirarg, f) \o StemPart(Stem(f.name))

\* The tag auto_tags appends: route_path.replace(directory.name, '')
AutoTag(dirarg, route_path) == Replace(route_path, BaseName(dirarg), <<>>)

\* The prefix argument of include_router: f"{route_path}"
Prefix(route_path) == route_path

\* A variant that leaves the list in the order the walk appended to it.
UnsortedRouters(rs) == rs

\* A variant that sorts in descending order of route_path.
RECURSIVE DescendingRouters(_)
DescendingRouters(rs) ==
    IF rs = <<>> THEN <<>>
    ELSE LET k == CHOOSE i \in 1..Len(rs) :
                      /\ \A j \in 1..Len(rs) : ~StrLess(rs[i].route_path, rs[j].route_path)
                      /\ \A j \in 1..(i - 1) : rs[j].route_path # rs[i].route_path
             rest == [i \in 1..(Len(rs) - 1) |-> IF i < k THEN rs[i] ELSE rs[i + 1]]
         IN  <<rs[k]>> \o DescendingRouters(rest)

\* sorted(routers, key=operator.itemgetter(0)): ascending by route_path, and
\* stable: entries with equal route_path keep the order they were appended in.
RECURSIVE SortedRouters(_)
SortedRouters(rs) ==
    IF rs = <<>> THEN <<>>
    ELSE LET k == CHOOSE i \in 1..Len(rs) :
                      /\ \A j \in 1..Len(rs) : ~StrLess(rs[j].route_path, rs[i].route_path)
                      /\ \A j \in 1..(i - 1) : rs[j].route_path # rs[i].route_path
             rest == [i \in 1..(Len(rs) - 1) |-> IF i < k THEN rs[i] ELSE rs[i + 1]]
         IN  <<rs[k]>> \o SortedRouters(rest)

\* log(message, verbose): the message reaches the logger at either level.
Log(kind, arg) == [msg |-> kind, arg |-> arg]

(***************************************************************************)
(* Initial states.                                                         *)
(***************************************************************************)
Init ==
    /\ directory \in Directories
    /\ tree \in Trees
    /\ auto_tags \in BOOLEAN
    /\ loaded = [f \in tree |-> "unloaded"]
    /\ tags = InitialTags
    /\ imported = {}
    /\ app = <<>>
    /\ run = 0
    /\ pc = "idle"
    /\ order = <<>>
    /\ pos = 1
    /\ routers = <<>>
    /\ reg = 1
    /\ logged = <<>>
    /\ tags0 = InitialTags
    /\ outcomes = <<>>

(***************************************************************************)
(* load_routes, one step at a time.                                        *)
(***************************************************************************)
Walking == pc = "running" /\ pos <= Len(order)
Registering == pc = "running" /\ pos > Len(order)
Current == order[pos]

\* The call: lines 67-70 and the start of the walk.
LoadRoutes ==
    /\ pc \in {"idle", "done", "aborted"}
    /\ run < MaxRuns
    /\ run' = run + 1
    /\ pc' = "running"
    /\ order' \in WalkOrders(tree)
    /\ pos' = 1
    /\ routers' = <<>>
    /\ reg' = 1
    /\ logged' = <<Log("Loading routes from", directory)>>
    /\ tags0' = tags
    /\ UNCHANGED <<directory, tree, auto_tags, loaded, tags, imported, app, outcomes>>

\* The walk is at a file of a directory whose name starts with "__".
SkipDirectory ==
    /\ Walking
    /\ SkipsDirectory(directory, Current)
    /\ pos' = pos + 1
    /\ UNCHANGED <<directory, tree, auto_tags, loaded, tags, imported, app, run,
                   pc, order, routers, reg, logged, tags0, outcomes>>

\* A file whose name starts with "__" or does not end in ".py".
SkipFile ==
    /\ Walking
    /\ ~SkipsDirectory(directory, Current)
    /\ SkipsFile(Current.name)
    /\ pos' = pos + 1
    /\ UNCHANGED <<directory, tree, auto_tags, loaded, tags, imported, app, run,
                   pc, order, routers, reg, logged, tags0, outcomes>>

\* A file whose stem contains "route" and is not "route".
SkipMisspelled ==
    /\ Walking
    /\ ~SkipsDirectory(directory, Current)
    /\ ~SkipsFile(Current.name)
    /\ IsMisspelled(Stem(Current.name))
    /\ logged' = Append(logged, Log("Skipping possibly misspelled route file",
                                    Stem(Current.name)))
    /\ pos' = pos + 1
    /\ UNCHANGED <<directory, tree, auto_tags, loaded, tags, imported, app, run,
                   pc, order, routers, reg, tags0, outcomes>>

\* importlib.import_module and getattr(route, "router", None) on the current
\* file: the same file gives the same result every time.
Import(res) ==
    /\ Walking
    /\ Qualifies(directory, Current)
    /\ IF loaded[Current] = "unloaded" THEN res \in LoadResults
                                       ELSE res = loaded[Current]
    /\ loaded' = [loaded EXCEPT ![Current] = res]
    /\ imported' = imported \cup {ModuleName(directory, Current)}

\* import_module raises: the exception leaves load_routes.
ImportFails ==
    /\ Import("raise")
    /\ pc' = "aborted"
    /\ outcomes' = Append(outcomes, "aborted")
    /\ UNCHANGED <<directory, tree, auto_tags, tags, app, run, order, pos,
                   routers, reg, logged, tags0>>

\* A variant that treats a module without a router as a failure.
NoRouterRaises ==
    /\ Import("None")
    /\ pc' = "aborted"
    /\ outcomes' = Append(outcomes, "aborted")
    /\ UNCHANGED <<directory, tree, auto_tags, tags, app, run, order, pos,
                   routers, reg, logged, tags0>>

\* The module has no router.
NoRouter ==
    /\ Import("None")
    /\ logged' = Append(logged, Log("does not contain a router",
                                    PosixPath(directory, Current)))
    /\ pos' = pos + 1
    /\ UNCHANGED <<directory, tree, auto_tags, tags, app, run, pc, order,
                   routers, reg, tags0, outcomes>>

\* A variant that calls include_router inside the walk, as soon as a router
\* is loaded.
CollectAndRegister ==
    \E router \in Routers :
        LET route_path == RoutePath(directory, Current)
        IN  /\ Import(router)
            /\ tags' = IF auto_tags
                       THEN [tags EXCEPT ![router] =
                                Append(@, AutoTag(directory, route_path))]
                       ELSE tags
            /\ routers' = Append(routers, [route_path |-> route_path,
                                           router |-> router,
                                           file |-> Current])
            /\ app' = Append(app, [run |-> run,
                                   router |-> router,
                                   prefix |-> Prefix(route_path),
                                   tags |-> tags'[router],
                                   file |-> Current])
            /\ pos' = pos + 1
            /\ UNCHANGED <<directory, tree, auto_tags, run, pc, order, reg,
                           logged, tags0, outcomes>>

\* The module has a router: lines 98-118.
Collect ==
    \E router \in Routers :
        LET route_path == RoutePath(directory, Current)
        IN  /\ Import(router)
            /\ tags' = IF auto_tags
                       THEN [tags EXCEPT ![router] =
                                Append(@, AutoTag(directory, route_path))]
                       ELSE tags
            /\ routers' = Append(routers, [route_path |-> route_path,
                                           router |-> router,
                                           file |-> Current])
            /\ pos' = pos + 1
            /\ UNCHANGED <<directory, tree, auto_tags, app, run, pc, order, reg,
                           logged, tags0, outcomes>>

\* One turn of the loop over sorted(routers): lines 121-127.
Register ==
    /\ Registering
    /\ reg <= Len(routers)
    /\ LET e == SortedRouters(routers)[reg]
       IN  /\ logged' = Append(logged, Log("Loaded router with path",
                                           <<"/">> \o e.route_path))
           /\ app' = Append(app, [run |-> run,
                                  router |-> e.router,
                                  prefix |-> Prefix(e.route_path),
                                  tags |-> tags[e.router],
                                  file |-> e.file])
    /\ reg' = reg + 1
    /\ UNCHANGED <<directory, tree, auto_tags, loaded, tags, imported, run, pc,
                   order, pos, routers, tags0, outcomes>>

\* Lines 128-130: the call returns app.
Return ==
    /\ Registering
    /\ reg > Len(routers)
    /\ logged' = Append(logged, Log("Routes loaded in", <<>>))
    /\ pc' = "done"
    /\ outcomes' = Append(outcomes, "done")
    /\ UNCHANGED <<directory, tree, auto_tags, loaded, tags, imported, app, run,
                   order, pos, routers, reg, tags0>>

Next ==
    \/ LoadRoutes
    \/ SkipDirectory
    \/ SkipFile
    \/ SkipMisspelled
    \/ ImportFails
    \/ NoRouter
    \/ Collect
    \/ Register
    \/ Return

Spec == Init /\ [][Next]_vars

(***************************************************************************)
(* Vocabulary of the properties.                                           *)
(***************************************************************************)
\* The include_router calls call number r made, in order.
CallsOf(r) == SelectSeq(app, LAMBDA c : c.run = r)

\* Call number r returned.
Completed(r) == r \in 1..Len(outcomes) /\ outcomes[r] = "done"

\* The walk of the running call has passed file f.
Visited(f) == \E i \in 1..Len(order) : i < pos /\ order[i] = f

\* File f was collected by the running call, or registered by any call.
Collected(f) == \E i \in 1..Len(routers) : routers[i].file = f
RegisteredEver(f) == \E i \in 1..Len(app) : app[i].file = f

\* The name of the directory that holds f starts with "__".
InDunderDirectory(f) ==
    f.dir # <<>> /\ SubSeq(f.dir[Len(f.dir)], 1, 2) = <<"_", "_">>

\* The stem of f contains "route" without being "route".
LooksMisspelled(f) ==
    LET stem == Stem(f.name)
    IN  stem # <<"r", "o", "u", "t", "e">>
        /\ \E i \in 1..Len(stem) :
             i + 4 <= Len(stem) /\ SubSeq(stem, i, i + 4) = <<"r", "o", "u", "t", "e">>

\* The path template the specification gives file f: the directory segments
\* below the root, each with its brackets converted, joined by "/", and then
\* what the stem adds.
RECURSIVE ConvertedSegments(_)
ConvertedSegments(segs) ==
    IF segs = <<>> THEN <<>>
    ELSE <<[i \in 1..Len(Head(segs)) |->
              IF Head(segs)[i] = "[" THEN "{"
              ELSE IF Head(segs)[i] = "]" THEN "}"
              ELSE Head(segs)[i]]>> \o ConvertedSegments(Tail(segs))

SpecifiedTemplate(f) ==
    LET stem == Stem(f.name)
    IN  Join(ConvertedSegments(f.dir), "/") \o
          (IF stem = <<"r", "o", "u", "t", "e">> THEN <<>>
           ELSE IF HasParam(stem) THEN <<"/", "{">> \o ParamName(stem) \o <<"}">>
           ELSE <<"/">> \o stem)

\* No two files the running call collected have the same path template.
NoTies ==
    \A i, j \in 1..Len(routers) :
        i # j => routers[i].route_path # routers[j].route_path

(***************************************************************************)
(* C1.  Within one load_routes call the include_router calls are made in   *)
(* ascending order of path template under str comparison: of two           *)
(* registrations of the same call, the later one's path is never smaller.  *)
(***************************************************************************)
C1_RegistrationsAscending ==
    \A i, j \in 1..Len(app) :
        (i < j /\ app[i].run = app[j].run) => ~StrLess(app[j].prefix, app[i].prefix)

\* A call that walked two files in descending order of path and has
\* registered both.
C1_Witness ==
    /\ pc = "done"
    /\ Len(routers) = 2
    /\ StrLess(routers[2].route_path, routers[1].route_path)
    /\ Len(CallsOf(run)) = 2

(***************************************************************************)
(* C2.  Collecting and registering are two phases: a call makes no         *)
(* include_router call before its walk has passed every file, and a call   *)
(* that the module loader aborted has made none at all, whatever it had    *)
(* loaded before the failing file.                                         *)
(***************************************************************************)
C2_NoRegistrationBeforeWalkEnds ==
    /\ (CallsOf(run) # <<>>) => (pc \in {"running", "done"} /\ pos > Len(order))
    /\ (pc = "aborted") => (CallsOf(run) = <<>>)

\* A call aborted by the loader after it had collected a router from an
\* earlier file.
C2_Witness ==
    /\ pc = "aborted"
    /\ routers # <<>>
    /\ loaded[order[pos]] = "raise"

(***************************************************************************)
(* C4.  A file whose containing directory's name starts with "__" is never *)
(* handed to the module loader, never collected and never registered.      *)
(***************************************************************************)
C4_DunderDirectoryNeverLoaded ==
    \A f \in tree :
        InDunderDirectory(f) =>
            /\ ModuleName(directory, f) \notin imported
            /\ ~Collected(f)
            /\ ~RegisteredEver(f)

\* A finished call over a tree that holds route.py inside __pycache__ and a
\* file that was registered.
C4_Witness ==
    /\ pc = "done"
    /\ \E f \in tree : InDunderDirectory(f) /\ f.name = ROUTE_PY /\ Visited(f)
    /\ CallsOf(run) # <<>>

(***************************************************************************)
(* C5.  A file whose stem contains "route" but is not "route" is never     *)
(* handed to the module loader and never registered; passing it logs the   *)
(* skip and the walk goes on: no call is aborted at such a file.           *)
(***************************************************************************)
C5_MisspelledNeverLoaded ==
    /\ \A f \in tree :
           LooksMisspelled(f) =>
               /\ ModuleName(directory, f) \notin imported
               /\ ~Collected(f)
               /\ ~RegisteredEver(f)
               /\ (Visited(f) /\ ~InDunderDirectory(f)) =>
                      \E i \in 1..Len(logged) :
                          /\ logged[i].msg = "Skipping possibly misspelled route file"
                          /\ logged[i].arg = Stem(f.name)
    /\ (pc = "aborted") => ~LooksMisspelled(order[pos])

\* A finished call that passed router.py and then registered another file.
C5_Witness ==
    /\ pc = "done"
    /\ Len(order) = 2
    /\ LooksMisspelled(order[1])
    /\ Collected(order[2])
    /\ Len(CallsOf(run)) = 1

(***************************************************************************)
(* C7.  A file whose module has no router is never registered and does not *)
(* fail the walk: a call aborts only at a file whose import raises, and a   *)
(* call that returns has registered every qualifying file whose module has *)
(* a router exactly once.                                                  *)
(***************************************************************************)
C7_AbsentRouterSkipped ==
    /\ \A f \in tree :
           loaded[f] = "None" => (~Collected(f) /\ ~RegisteredEver(f))
    /\ (pc = "aborted") => (loaded[order[pos]] = "raise")
    /\ (pc = "done") =>
           \A f \in tree :
               (Qualifies(directory, f) /\ loaded[f] \in Routers) =>
                   Cardinality({i \in 1..Len(app) :
                                   /\ app[i].run = run
                                   /\ app[i].file = f
                                   /\ app[i].router = loaded[f]}) = 1

\* A finished call that walked a file without a router first and registered
\* the file that came after it.
C7_Witness ==
    /\ pc = "done"
    /\ Len(order) = 2
    /\ loaded[order[1]] = "None"
    /\ loaded[order[2]] \in Routers
    /\ Len(CallsOf(run)) = 1

(***************************************************************************)
(* C9.  As claimed: any two calls that returned, on the same unchanged     *)
(* tree, made the same sequence of (prefix, handler) registrations,        *)
(* whatever order each walked the tree in, ties between path templates     *)
(* included.                                                               *)
(***************************************************************************)
PrefixAndHandler(calls) ==
    [i \in 1..Len(calls) |-> <<calls[i].prefix, calls[i].router>>]

C9_AnyOrderSameRegistrations ==
    \A r1, r2 \in 1..Len(outcomes) :
        (Completed(r1) /\ Completed(r2)) =>
            PrefixAndHandler(CallsOf(r1)) = PrefixAndHandler(CallsOf(r2))

(***************************************************************************)
(* C9, amended.  When no two files that are registered resolve to the same *)
(* path template, any two calls that returned made the same sequence of    *)
(* (prefix, handler) registrations, whatever order each walked the tree    *)
(* in.                                                                     *)
(***************************************************************************)
C9_SameRegistrationsWithoutTies ==
    (pc = "done" /\ NoTies) =>
        \A r \in 1..Len(outcomes) :
            Completed(r) =>
                PrefixAndHandler(CallsOf(r)) = PrefixAndHandler(CallsOf(run))

\* Two calls that returned, the second of which walked two files with
\* different path templates in the opposite order of the first: both files
\* export the same router, whose tags record the first call's order.
C9_Witness ==
    /\ pc = "done"
    /\ run = 2
    /\ Completed(1)
    /\ auto_tags
    /\ Len(routers) = 2
    /\ NoTies
    /\ routers[1].router = routers[2].router
    /\ tags0[routers[1].router] =
           InitialTags[routers[1].router] \o
               << AutoTag(directory, routers[2].route_path),
                  AutoTag(directory, routers[1].route_path) >>

(***************************************************************************)
(* C3.  As claimed, for a root given as a bare name: the path template of  *)
(* every collected file is the "/"-join of its directory segments with the *)
(* brackets converted, followed by nothing for route, by "/{p}" for a      *)
(* bracketed stem and by "/" and the stem otherwise, also when a name      *)
(* contains the root's name.                                               *)
(***************************************************************************)
C3_TemplateIsSegmentJoin ==
    (directory = API) =>
        \A i \in 1..Len(routers) :
            routers[i].route_path = SpecifiedTemplate(routers[i].file)

(***************************************************************************)
(* C6.  As claimed, for a router that one file of the tree exports: with   *)
(* auto_tags the tags passed to include_router are the tags the router had *)
(* before the call followed by one tag equal to the path template its      *)
(* prefix is built from; without auto_tags they are the tags it had.       *)
(***************************************************************************)
C6_TagIsPathTemplate ==
    \A i \in 1..Len(app) :
        (/\ app[i].run = run
         /\ Cardinality({k \in 1..Len(routers) : routers[k].router = app[i].router}) = 1)
        => app[i].tags = IF auto_tags
                         THEN Append(tags0[app[i].router], app[i].prefix)
                         ELSE tags0[app[i].router]

(***************************************************************************)
(* C8.  As claimed: every include_router call is passed the prefix "/"     *)
(* followed by the file's path template, and the path template itself      *)
(* does not start with "/".                                                *)
(***************************************************************************)
C8_PrefixIsSlashTemplate ==
    \A i \in 1..Len(app) :
        LET template == RoutePath(directory, app[i].file)
        IN  /\ app[i].prefix = <<"/">> \o template
            /\ (template = <<>> \/ template[1] # "/")

(***************************************************************************)
(* C10.  As claimed: with auto_tags on and the loader giving the same      *)
(* router for the same file every time, every registration of a later call *)
(* that returned passes the prefix and tags that the first call passed for *)
(* that router.                                                            *)
(***************************************************************************)
C10_RunsIndependent ==
    (auto_tags /\ Completed(1)) =>
        \A r \in 2..Len(outcomes) :
            Completed(r) =>
                \A i \in 1..Len(CallsOf(r)) :
                    \E j \in 1..Len(CallsOf(1)) :
                        /\ CallsOf(1)[j].router = CallsOf(r)[i].router
                        /\ CallsOf(1)[j].prefix = CallsOf(r)[i].prefix
                        /\ CallsOf(1)[j].tags = CallsOf(r)[i].tags

====
